---- MODULE Spec2Model ----
(***************************************************************************)
(* pixelArt_png2svg.py: the tiling scan of convert_png_to_svg, the         *)
(* rectangle extractor (find_rectangle over find_horizontal_line), the     *)
(* merge pass optimize_shapes and the path emitter shape_to_path.          *)
(*                                                                         *)
(* Spec      the pipeline: an RGBA grid is scanned row-major, then the     *)
(*           shape list goes through optimize_shapes.                      *)
(* SpecMerge optimize_shapes on any list of pairwise disjoint shapes.      *)
(* SpecRect  find_rectangle on any grid, mask and seed.                    *)
(* SpecPath  shape_to_path on any shape.                                   *)
(***************************************************************************)
EXTENDS Integers, Sequences, FiniteSets, TLC

VARIABLES
    img_array,   \* img_array[y][x]: the RGBA pixel at column x of row y
    width,       \* img.size[0]
    height,      \* img.size[1]
    processed,   \* processed[y][x]: the claimed mask
    shapes,      \* the scanner's shape list, in creation order
    cursor,      \* position of the row-major loop: y * width + x
    pc,          \* where the run is
    branch,      \* the branch the last loop iteration took
    claims,      \* history: claims[y][x] lists the seeds whose step wrote True to (x, y)
    optimized,   \* the entries of optimize_shapes' result, with what was folded into each
    rect,        \* the value find_rectangle returned (SpecRect)
    seed,        \* the seed find_rectangle was called at (SpecRect)
    path         \* the value shape_to_path returned (SpecPath)

vars == <<img_array, width, height, processed, shapes, cursor, pc, branch,
          claims, optimized, rect, seed, path>>

---------------------------------------------------------------------------
(* Bounds of the model. *)

\* a scanned grid has at most MaxCells cells (width * height <= MaxCells)
MaxCells == 6
\* a grid handed to find_rectangle on its own has at most RectCells cells
RectCells == 4
\* a shape handed to optimize_shapes on its own fits a grid of at most MergeCells cells
MergeCells == 4
\* a list handed to optimize_shapes on its own has at most MaxShapes shapes
MaxShapes == 3
\* a shape handed to shape_to_path has coordinates and sides up to PathMax
PathMax == 11

\* the pixels of the model's images: opaque black and a transparent pixel (both
\* suppressed by the scan), opaque white and a half-transparent colour
BLACK == <<0, 0, 0, 255>>
CLEAR == <<255, 255, 255, 0>>
WHITE == <<255, 255, 255, 255>>
TINT == <<10, 20, 30, 128>>
Palette == {BLACK, CLEAR, WHITE, TINT}

Dims(n) == {d \in (1..n) \X (1..n) : d[1] * d[2] <= n}

---------------------------------------------------------------------------
(* The program's data and pure functions. *)

PixelGroup(x, y, w, h, color) ==
    [x |-> x, y |-> y, width |-> w, height |-> h, color |-> color]

\* the value None
None == [none |-> TRUE]

\* the while loop of find_horizontal_line: the x it stops at
RECURSIVE HorizontalScan(_, _, _, _, _, _)
HorizontalScan(img, x, y, color, w, proc) ==
    IF x < w /\ ~proc[y][x] /\ img[y][x] = color
    THEN HorizontalScan(img, x + 1, y, color, w, proc)
    ELSE x

\* mutant: the run stops at claimed cells only, whatever their colour
find_horizontal_line_AnyColor(img, start_x, y, color, w, proc) ==
    (CHOOSE x \in start_x..w :
        /\ x = w \/ proc[y][x]
        /\ \A z \in start_x..(x - 1) : ~proc[y][z]) - start_x

\* mutant: the run stops at another colour only, claimed or not
find_horizontal_line_Unmasked(img, start_x, y, color, w, proc) ==
    (CHOOSE x \in start_x..w :
        /\ x = w \/ img[y][x] # color
        /\ \A z \in start_x..(x - 1) : img[y][z] = color) - start_x

find_horizontal_line(img, start_x, y, color, w, proc) ==
    HorizontalScan(img, start_x, y, color, w, proc) - start_x

\* the while loop of find_vertical_line: the y it stops at
RECURSIVE VerticalScan(_, _, _, _, _, _)
VerticalScan(img, x, y, color, h, proc) ==
    IF y < h /\ ~proc[y][x] /\ img[y][x] = color
    THEN VerticalScan(img, x, y + 1, color, h, proc)
    ELSE y

find_vertical_line(img, x, start_y, color, h, proc) ==
    VerticalScan(img, x, start_y, color, h, proc) - start_y

\* mutant: the rectangle is never extended downwards
ExtendDown_Never(img, start_x, y, color, rect_width, h, proc, max_height) ==
    max_height

\* the for loop of find_rectangle from row y on: the max_height it ends with
RECURSIVE ExtendDown(_, _, _, _, _, _, _, _)
ExtendDown(img, start_x, y, color, rect_width, h, proc, max_height) ==
    IF y >= h
    THEN max_height
    ELSE LET line_width ==
                 find_horizontal_line(img, start_x, y, color, start_x + rect_width, proc)
         IN  IF line_width < rect_width
             THEN max_height
             ELSE ExtendDown(img, start_x, y + 1, color, rect_width, h, proc,
                             max_height + 1)

\* mutant: the loop over the rows starts at the seed's row, range(start_y, height)
find_rectangle_FromSeedRow(img, start_x, start_y, color, w, h, proc) ==
    LET rect_width == find_horizontal_line(img, start_x, start_y, color, w, proc)
    IN  IF rect_width = 0
        THEN None
        ELSE PixelGroup(start_x, start_y, rect_width,
                        ExtendDown(img, start_x, start_y, color, rect_width, h,
                                   proc, 1),
                        color)

\* mutant: a run of one cell is no rectangle, rect_width <= 1
find_rectangle_NoSingle(img, start_x, start_y, color, w, h, proc) ==
    LET rect_width == find_horizontal_line(img, start_x, start_y, color, w, proc)
    IN  IF rect_width <= 1
        THEN None
        ELSE PixelGroup(start_x, start_y, rect_width,
                        ExtendDown(img, start_x, start_y + 1, color, rect_width, h,
                                   proc, 1),
                        color)

find_rectangle(img, start_x, start_y, color, w, h, proc) ==
    LET rect_width == find_horizontal_line(img, start_x, start_y, color, w, proc)
    IN  IF rect_width = 0
        THEN None
        ELSE PixelGroup(start_x, start_y, rect_width,
                        ExtendDown(img, start_x, start_y + 1, color, rect_width, h,
                                   proc, 1),
                        color)

\* mutant: only transparent pixels are skipped
IsSkipped_AlphaOnly(color) == color[4] = 0

\* the test "skip black or transparent pixels"
IsSkipped(color) ==
    color[4] = 0 \/ (color[1] = 0 /\ color[2] = 0 /\ color[3] = 0)

\* a slice assignment processed[y0:y1, x0:x1] = True: the cells it writes
SliceCells(x0, x1, y0, y1) ==
    {c \in (0..(width - 1)) \X (0..(height - 1)) :
        x0 <= c[1] /\ c[1] < x1 /\ y0 <= c[2] /\ c[2] < y1}

\* one iteration of the loop body at (x, y): the branch taken, the shapes
\* appended and the cells written True
LoopBody(x, y) ==
    LET color == img_array[y][x]
        r == find_rectangle(img_array, x, y, color, width, height, processed)
        v_length == find_vertical_line(img_array, x, y, color, height, processed)
        h_length == find_horizontal_line(img_array, x, y, color, width, processed)
    IN  IF processed[y][x]
        THEN [branch |-> "claimed", new |-> <<>>, cells |-> {}]
        ELSE IF IsSkipped(color)
        THEN [branch |-> "skipped", new |-> <<>>, cells |-> {<<x, y>>}]
        ELSE IF r # None
        THEN [branch |-> "rectangle", new |-> <<r>>,
              cells |-> SliceCells(r.x, r.x + r.width, r.y, r.y + r.height)]
        ELSE IF v_length > 1
        THEN [branch |-> "vertical", new |-> <<PixelGroup(x, y, 1, v_length, color)>>,
              cells |-> SliceCells(x, x + 1, y, y + v_length)]
        ELSE IF h_length > 1
        THEN [branch |-> "horizontal", new |-> <<PixelGroup(x, y, h_length, 1, color)>>,
              cells |-> SliceCells(x, x + h_length, y, y + 1)]
        ELSE [branch |-> "pixel", new |-> <<PixelGroup(x, y, 1, 1, color)>>,
              cells |-> {<<x, y>>}]

---------------------------------------------------------------------------
(* optimize_shapes *)

\* the keys of color_groups in insertion order
RECURSIVE ColorKeys(_)
ColorKeys(s) ==
    IF s = <<>>
    THEN <<>>
    ELSE LET front == ColorKeys(SubSeq(s, 1, Len(s) - 1))
             c == s[Len(s)].color
         IN  IF \E i \in 1..Len(front) : front[i] = c
             THEN front
             ELSE Append(front, c)

ColorGroup(s, color) == SelectSeq(s, LAMBDA sh : sh.color = color)

\* the sort key (s.y, s.x), compared as Python compares tuples
KeyLess(a, b) == a.y < b.y \/ (a.y = b.y /\ a.x < b.x)

\* insert sh into a sorted list after every entry whose key is not greater
RECURSIVE InsertSorted(_, _)
InsertSorted(sorted, sh) ==
    IF sorted = <<>>
    THEN <<sh>>
    ELSE IF KeyLess(sh, sorted[Len(sorted)])
    THEN Append(InsertSorted(SubSeq(sorted, 1, Len(sorted) - 1), sh),
                sorted[Len(sorted)])
    ELSE Append(sorted, sh)

\* group.sort(key=lambda s: (s.y, s.x)): a stable sort
RECURSIVE SortGroup(_)
SortGroup(group) ==
    IF group = <<>>
    THEN <<>>
    ELSE InsertSorted(SortGroup(SubSeq(group, 1, Len(group) - 1)), group[Len(group)])

\* an entry of current_path: the shape as it stands, and the history of the
\* input shapes folded into it, each with how it came in and the entry's shape
\* (last_shape) as it was just before
NewEntry(shape) ==
    [shape |-> shape, parts |-> <<[shape |-> shape, how |-> "new", into |-> shape]>>]

\* mutant: a horizontal merge assigns the width instead of adding it
MergeStep_Assign(current_path, shape) ==
    IF current_path = <<>>
    THEN <<NewEntry(shape)>>
    ELSE LET n == Len(current_path)
             last_shape == current_path[n].shape
         IN  IF last_shape.y = shape.y /\ last_shape.x + last_shape.width = shape.x
             THEN [current_path EXCEPT
                      ![n].shape.width = shape.width,
                      ![n].parts = Append(@, [shape |-> shape, how |-> "horizontal",
                                           into |-> last_shape])]
             ELSE IF /\ last_shape.x = shape.x
                     /\ last_shape.width = shape.width
                     /\ last_shape.y + last_shape.height = shape.y
             THEN [current_path EXCEPT
                      ![n].shape.height = @ + shape.height,
                      ![n].parts = Append(@, [shape |-> shape, how |-> "vertical",
                                           into |-> last_shape])]
             ELSE Append(current_path, NewEntry(shape))

\* one iteration of "for shape in group"
MergeStep(current_path, shape) ==
    IF current_path = <<>>
    THEN <<NewEntry(shape)>>
    ELSE LET n == Len(current_path)
             last_shape == current_path[n].shape
         IN  IF last_shape.y = shape.y /\ last_shape.x + last_shape.width = shape.x
             THEN [current_path EXCEPT
                      ![n].shape.width = @ + shape.width,
                      ![n].parts = Append(@, [shape |-> shape, how |-> "horizontal",
                                           into |-> last_shape])]
             ELSE IF /\ last_shape.x = shape.x
                     /\ last_shape.width = shape.width
                     /\ last_shape.y + last_shape.height = shape.y
             THEN [current_path EXCEPT
                      ![n].shape.height = @ + shape.height,
                      ![n].parts = Append(@, [shape |-> shape, how |-> "vertical",
                                           into |-> last_shape])]
             ELSE Append(current_path, NewEntry(shape))

\* the loop "for shape in group" over the first k shapes of a sorted group
RECURSIVE MergeGroup(_, _)
MergeGroup(group, k) ==
    IF k = 0
    THEN <<>>
    ELSE MergeStep(MergeGroup(group, k - 1), group[k])

\* the loop "for color, group in color_groups.items()" over the first k keys
RECURSIVE MergeColors(_, _, _)
MergeColors(s, keys, k) ==
    IF k = 0
    THEN <<>>
    ELSE LET group == SortGroup(ColorGroup(s, keys[k]))
         IN  MergeColors(s, keys, k - 1) \o MergeGroup(group, Len(group))

optimize_shapes(s) == MergeColors(s, ColorKeys(s), Len(ColorKeys(s)))

\* optimized_shapes, the list optimize_shapes returns
optimized_shapes == [i \in 1..Len(optimized) |-> optimized[i].shape]

---------------------------------------------------------------------------
(* The pipeline: convert_png_to_svg from the loaded image to optimized_shapes. *)

Idle ==
    /\ rect = None
    /\ seed = <<0, 0>>
    /\ path = ""

Init ==
    /\ \E d \in Dims(MaxCells) :
          /\ width = d[1]
          /\ height = d[2]
          /\ img_array \in [0..(d[2] - 1) -> [0..(d[1] - 1) -> Palette]]
          /\ processed = [y \in 0..(d[2] - 1) |-> [x \in 0..(d[1] - 1) |-> FALSE]]
          /\ claims = [y \in 0..(d[2] - 1) |-> [x \in 0..(d[1] - 1) |-> <<>>]]
    /\ shapes = <<>>
    /\ cursor = 0
    /\ pc = "scan"
    /\ branch = "none"
    /\ optimized = <<>>
    /\ Idle

\* one iteration of "for y in range(height): for x in range(width)"
ScanStep ==
    /\ pc = "scan"
    /\ cursor < width * height
    /\ LET x == cursor % width
           y == cursor \div width
           step == LoopBody(x, y)
       IN  /\ branch' = step.branch
           /\ shapes' = shapes \o step.new
           /\ processed' = [r \in DOMAIN processed |-> [c \in DOMAIN processed[r] |->
                               IF <<c, r>> \in step.cells THEN TRUE ELSE processed[r][c]]]
           /\ claims' = [r \in DOMAIN claims |-> [c \in DOMAIN claims[r] |->
                               IF <<c, r>> \in step.cells
                               THEN Append(claims[r][c], <<x, y>>)
                               ELSE claims[r][c]]]
    /\ cursor' = cursor + 1
    /\ UNCHANGED <<img_array, width, height, pc, optimized, rect, seed, path>>

\* optimized_shapes = optimize_shapes(shapes), once the loops are over
Optimize ==
    /\ pc = "scan"
    /\ cursor = width * height
    /\ optimized' = optimize_shapes(shapes)
    /\ pc' = "done"
    /\ UNCHANGED <<img_array, width, height, processed, shapes, cursor, branch,
                   claims, rect, seed, path>>

Next == ScanStep \/ Optimize

Spec == Init /\ [][Next]_vars

---------------------------------------------------------------------------
(* find_rectangle on its own: any grid, any mask, any seed and colour. *)

RectPalette == {WHITE, TINT}

InitRect ==
    /\ \E d \in Dims(RectCells) :
          /\ width = d[1]
          /\ height = d[2]
          /\ img_array \in [0..(d[2] - 1) -> [0..(d[1] - 1) -> RectPalette]]
          /\ processed \in [0..(d[2] - 1) -> [0..(d[1] - 1) -> BOOLEAN]]
          /\ seed \in [x : 0..(d[1] - 1), y : 0..(d[2] - 1), color : RectPalette]
    /\ claims = <<>>
    /\ shapes = <<>>
    /\ cursor = 0
    /\ pc = "rect_call"
    /\ branch = "none"
    /\ optimized = <<>>
    /\ rect = None
    /\ path = ""

\* a call find_rectangle(img_array, x, y, color, width, height, processed)
FindRectangle ==
    /\ pc = "rect_call"
    /\ rect' = find_rectangle(img_array, seed.x, seed.y, seed.color, width, height,
                              processed)
    /\ pc' = "rect_done"
    /\ UNCHANGED <<img_array, width, height, processed, shapes, cursor, branch,
                   claims, optimized, seed, path>>

NextRect == FindRectangle

SpecRect == InitRect /\ [][NextRect]_vars

---------------------------------------------------------------------------
(* optimize_shapes on its own: any list of pairwise disjoint shapes. *)

MergePalette == {WHITE, TINT}

\* the shapes that fit a grid of at most MergeCells cells
MergeShapes ==
    {PixelGroup(r[1], r[2], r[3], r[4], c) :
        r \in {q \in (0..(MergeCells - 1)) \X (0..(MergeCells - 1))
                     \X (1..MergeCells) \X (1..MergeCells) :
                  (q[1] + q[3]) * (q[2] + q[4]) <= MergeCells},
        c \in MergePalette}

Overlap(a, b) ==
    /\ a.x < b.x + b.width /\ b.x < a.x + a.width
    /\ a.y < b.y + b.height /\ b.y < a.y + a.height

InitMerge ==
    /\ width = 0
    /\ height = 0
    /\ img_array = <<>>
    /\ processed = <<>>
    /\ claims = <<>>
    /\ shapes = <<>>
    /\ cursor = 0
    /\ pc = "merge_input"
    /\ branch = "none"
    /\ optimized = <<>>
    /\ rect = None
    /\ seed = <<0, 0>>
    /\ path = ""

\* the caller puts one more shape, disjoint from the others, on its list
AppendShape ==
    /\ pc = "merge_input"
    /\ Len(shapes) < MaxShapes
    /\ \E sh \in MergeShapes :
          /\ \A i \in 1..Len(shapes) : ~Overlap(shapes[i], sh)
          /\ shapes' = Append(shapes, sh)
    /\ UNCHANGED <<img_array, width, height, processed, cursor, pc, branch, claims,
                   optimized, rect, seed, path>>

\* a call optimize_shapes(shapes)
OptimizeList ==
    /\ pc = "merge_input"
    /\ optimized' = optimize_shapes(shapes)
    /\ pc' = "merge_done"
    /\ UNCHANGED <<img_array, width, height, processed, shapes, cursor, branch,
                   claims, rect, seed, path>>

NextMerge == AppendShape \/ OptimizeList

SpecMerge == InitMerge /\ [][NextMerge]_vars

---------------------------------------------------------------------------
(* shape_to_path on its own: any shape. *)

Digit(d) ==
    CASE d = 0 -> "0" [] d = 1 -> "1" [] d = 2 -> "2" [] d = 3 -> "3" [] d = 4 -> "4"
      [] d = 5 -> "5" [] d = 6 -> "6" [] d = 7 -> "7" [] d = 8 -> "8" [] d = 9 -> "9"

RECURSIVE Decimal(_)
Decimal(n) == IF n < 10 THEN Digit(n) ELSE Decimal(n \div 10) \o Digit(n % 10)

\* an int formatted by an f-string
FormatInt(n) == IF n < 0 THEN "-" \o Decimal(-n) ELSE Decimal(n)

\* mutant: the way back is drawn with w instead of -w
shape_to_path_NoMinus(shape) ==
    "M " \o FormatInt(shape.x) \o " " \o FormatInt(shape.y)
         \o " h " \o FormatInt(shape.width) \o " v " \o FormatInt(shape.height)
         \o " h " \o FormatInt(shape.width) \o "z"

shape_to_path(shape) ==
    LET x == shape.x
        y == shape.y
        w == shape.width
        h == shape.height
        p1 == "M " \o FormatInt(x) \o " " \o FormatInt(y)
        p2 == p1 \o " h " \o FormatInt(w)
        p3 == p2 \o " v " \o FormatInt(h)
        p4 == p3 \o " h " \o FormatInt(-w)
    IN  p4 \o "z"

InitPath ==
    /\ width = 0
    /\ height = 0
    /\ img_array = <<>>
    /\ processed = <<>>
    /\ claims = <<>>
    /\ \E x \in 0..PathMax, y \in 0..PathMax, w \in 1..PathMax, h \in 1..PathMax :
          shapes = <<PixelGroup(x, y, w, h, WHITE)>>
    /\ cursor = 0
    /\ pc = "path_call"
    /\ branch = "none"
    /\ optimized = <<>>
    /\ rect = None
    /\ seed = <<0, 0>>
    /\ path = ""

\* a call shape_to_path(shape)
ShapeToPath ==
    /\ pc = "path_call"
    /\ path' = shape_to_path(shapes[1])
    /\ pc' = "path_done"
    /\ UNCHANGED <<img_array, width, height, processed, shapes, cursor, branch,
                   claims, optimized, rect, seed>>

NextPath == ShapeToPath

SpecPath == InitPath /\ [][NextPath]_vars

---------------------------------------------------------------------------
(* Properties of the pipeline (Spec). *)

Cells == (0..(width - 1)) \X (0..(height - 1))

PixelAt(c) == img_array[c[2]][c[1]]

\* a pixel the scan is to leave uncovered: alpha = 0 or R = G = B = 0
Background(color) ==
    color[4] = 0 \/ (color[1] = 0 /\ color[2] = 0 /\ color[3] = 0)

\* the cell c lies in the rectangle of sh
Covers(sh, c) ==
    /\ sh.x <= c[1] /\ c[1] < sh.x + sh.width
    /\ sh.y <= c[2] /\ c[2] < sh.y + sh.height

CellsOf(sh) ==
    {c \in (sh.x..(sh.x + sh.width - 1)) \X (sh.y..(sh.y + sh.height - 1)) : TRUE}

\* the number of entries of the list s that cover c
CoverCount(s, c) == Cardinality({i \in 1..Len(s) : Covers(s[i], c)})

InsideGrid(sh) ==
    /\ sh.width >= 1 /\ sh.height >= 1
    /\ sh.x >= 0 /\ sh.y >= 0
    /\ sh.x + sh.width <= width /\ sh.y + sh.height <= height

\* the position of a cell in the row-major scan
ScanIndex(c) == c[2] * width + c[1]

\* C1 (coverage): after the scan and optimize_shapes, every cell that is not
\* background lies in exactly one final shape, every background cell (alpha = 0
\* or R = G = B = 0) lies in none, and every final shape lies inside the grid.
C1_Coverage ==
    pc = "done" =>
        /\ \A i \in 1..Len(optimized_shapes) : InsideGrid(optimized_shapes[i])
        /\ \A c \in Cells :
              CoverCount(optimized_shapes, c) =
                  IF Background(PixelAt(c)) THEN 0 ELSE 1

C1_Witness ==
    /\ pc = "done"
    /\ Len(optimized_shapes) >= 2
    /\ \E c \in Cells : PixelAt(c) = BLACK
    /\ \E c \in Cells : PixelAt(c) = CLEAR
    /\ \E i \in 1..Len(optimized_shapes) :
          optimized_shapes[i].width * optimized_shapes[i].height >= 2

\* C2 (colour fidelity): every final shape has, on all four channels, the colour
\* of the source pixel at every cell it covers.
C2_ColorFidelity ==
    pc = "done" =>
        \A i \in 1..Len(optimized_shapes) :
            \A c \in CellsOf(optimized_shapes[i]) :
                /\ c \in Cells
                /\ \A k \in 1..4 : optimized_shapes[i].color[k] = PixelAt(c)[k]

C2_Witness ==
    /\ pc = "done"
    /\ \E i, j \in 1..Len(optimized_shapes) :
          /\ optimized_shapes[i].color = WHITE
          /\ optimized_shapes[j].color = TINT
          /\ optimized_shapes[i].width * optimized_shapes[i].height >= 2
          /\ optimized_shapes[j].width * optimized_shapes[j].height >= 2

\* C7 (claimed-mask discipline): at every point of the scan a cell is true in
\* the mask exactly when one step has written it, no cell is written twice, the
\* step that wrote a cell is the visit of that cell or of an earlier seed, every
\* visited cell is true, and after the scan every cell is true.
C7_MaskDiscipline ==
    \A c \in Cells :
        /\ Len(claims[c[2]][c[1]]) <= 1
        /\ processed[c[2]][c[1]] <=> (Len(claims[c[2]][c[1]]) = 1)
        /\ claims[c[2]][c[1]] # <<>> =>
              /\ ScanIndex(claims[c[2]][c[1]][1]) <= ScanIndex(c)
              /\ ScanIndex(claims[c[2]][c[1]][1]) < cursor
        /\ ScanIndex(c) < cursor => processed[c[2]][c[1]]
        /\ pc = "done" => processed[c[2]][c[1]]

C7_Witness ==
    /\ pc = "done"
    /\ \E c \in Cells : claims[c[2]][c[1]] = <<c>> /\ Background(PixelAt(c))
    /\ \E c \in Cells : claims[c[2]][c[1]] = <<c>> /\ ~Background(PixelAt(c))
    /\ \E c \in Cells :
          /\ claims[c[2]][c[1]] # <<c>>
          /\ claims[c[2]][c[1]][1][2] < c[2]
    /\ branch = "claimed"

\* the cells whose own visit claimed them and emitted a shape
Seeds ==
    {c \in Cells : claims[c[2]][c[1]] = <<c>> /\ ~Background(PixelAt(c))}

\* C9 (dead fallbacks): no iteration of the scan takes the vertical-run, the
\* horizontal-run or the single-pixel branch, and the shape list holds exactly
\* one shape per seed, rooted at it.
C9_FallbackDead ==
    /\ branch \in {"none", "claimed", "skipped", "rectangle"}
    /\ Len(shapes) = Cardinality(Seeds)
    /\ \A c \in Seeds :
          Cardinality({i \in 1..Len(shapes) : shapes[i].x = c[1] /\ shapes[i].y = c[2]}) = 1

C9_Witness ==
    /\ pc = "scan"
    /\ branch = "rectangle"
    /\ Len(shapes) >= 2
    /\ shapes[Len(shapes)].width = 1 /\ shapes[Len(shapes)].height = 1
    /\ \E i \in 1..Len(shapes) : shapes[i].height >= 2

\* the index of the first shape of the list s that has the colour of sh
FirstSeen(s, sh) ==
    CHOOSE i \in 1..Len(s) :
        /\ s[i].color = sh.color
        /\ \A j \in 1..(i - 1) : s[j].color # sh.color

\* C10 (the merge pass is the identity on scanner output): on the scanner's
\* list optimize_shapes merges nothing; its result holds the same shapes,
\* grouped by colour in first-seen order and ascending in (y, x) within a colour.
C10_NoMergeAfterScan ==
    pc = "done" =>
        /\ Len(optimized) = Len(shapes)
        /\ \A i \in 1..Len(optimized) :
              /\ Len(optimized[i].parts) = 1
              /\ optimized[i].parts[1].how = "new"
              /\ optimized[i].parts[1].shape = optimized[i].shape
        /\ {optimized_shapes[i] : i \in 1..Len(optimized)} =
              {shapes[i] : i \in 1..Len(shapes)}
        /\ \A i, j \in 1..Len(optimized) :
              i < j =>
                  LET a == optimized_shapes[i]
                      b == optimized_shapes[j]
                  IN  IF a.color = b.color
                      THEN a.y < b.y \/ (a.y = b.y /\ a.x < b.x)
                      ELSE FirstSeen(shapes, a) < FirstSeen(shapes, b)

C10_Witness ==
    /\ pc = "done"
    /\ Len(shapes) >= 3
    /\ optimized_shapes # shapes
    /\ \E i, j \in 1..Len(shapes) :
          /\ i # j
          /\ shapes[i].color = shapes[j].color
          /\ shapes[i].x = shapes[j].x
          /\ shapes[i].y + shapes[i].height = shapes[j].y

---------------------------------------------------------------------------
(* Properties of find_rectangle (SpecRect). *)

\* the cell (x, y) of the grid is unclaimed and has the colour asked for
Free(x, y) ==
    /\ x < width /\ y < height
    /\ ~processed[y][x]
    /\ img_array[y][x] = seed.color

---------------------------------------------------------------------------
(* Properties of optimize_shapes (SpecMerge). *)

\* the cells of the input shapes folded into the entry e
PartCells(e) == UNION {CellsOf(e.parts[k].shape) : k \in 1..Len(e.parts)}

\* C3 (full-edge merging), as claimed: a shape is folded into the previous entry
\* only when both have the same colour and share one full edge (horizontal:
\* equal y and equal height, L.x + L.width = shape.x; vertical: equal x and
\* equal width, L.y + L.height = shape.y), so every output shape covers exactly
\* the cells of the input shapes folded into it.
C3_FullEdgeMerge ==
    pc = "merge_done" =>
        \A n \in 1..Len(optimized) :
            /\ \A k \in 1..Len(optimized[n].parts) :
                  LET p == optimized[n].parts[k]
                  IN  /\ p.into.color = p.shape.color
                      /\ p.how = "horizontal" =>
                            /\ p.into.y = p.shape.y
                            /\ p.into.height = p.shape.height
                            /\ p.into.x + p.into.width = p.shape.x
                      /\ p.how = "vertical" =>
                            /\ p.into.x = p.shape.x
                            /\ p.into.width = p.shape.width
                            /\ p.into.y + p.into.height = p.shape.y
            /\ CellsOf(optimized[n].shape) = PartCells(optimized[n])

\* the pairs (i, j) of input shapes A = shapes[i], B = shapes[j] of one colour
\* where the right edge of A is the left edge of B, at equal y and height
EdgePairs ==
    {ij \in (1..Len(shapes)) \X (1..Len(shapes)) :
        /\ shapes[ij[1]].color = shapes[ij[2]].color
        /\ shapes[ij[1]].y = shapes[ij[2]].y
        /\ shapes[ij[1]].height = shapes[ij[2]].height
        /\ shapes[ij[1]].x + shapes[ij[1]].width = shapes[ij[2]].x}

\* the entry of the output that the input shape sh was folded into
EntryOf(sh) ==
    CHOOSE n \in 1..Len(optimized) :
        \E k \in 1..Len(optimized[n].parts) : optimized[n].parts[k].shape = sh

\* how the input shape sh came into its entry
HowOf(sh) ==
    LET e == optimized[EntryOf(sh)]
    IN  e.parts[CHOOSE k \in 1..Len(e.parts) : e.parts[k].shape = sh].how

\* the widths folded horizontally into e, the first shape's included
RECURSIVE MergedWidth(_, _)
MergedWidth(e, k) ==
    IF k = 0
    THEN 0
    ELSE MergedWidth(e, k - 1) +
         (IF e.parts[k].how = "vertical" THEN 0 ELSE e.parts[k].shape.width)

\* C4 (merge correctness), as claimed: for A and B as in EdgePairs the output
\* holds one shape that both were folded into, which covers both and whose
\* width is the sum of the merged widths, however A came into its entry.
C4_MergeCorrectness ==
    pc = "merge_done" =>
        \A ij \in EdgePairs :
            LET A == shapes[ij[1]]
                B == shapes[ij[2]]
                e == optimized[EntryOf(A)]
            IN  /\ EntryOf(B) = EntryOf(A)
                /\ (CellsOf(A) \cup CellsOf(B)) \subseteq CellsOf(e.shape)
                /\ e.shape.width = MergedWidth(e, Len(e.parts))

\* C4 amended: unless A came into its entry by a vertical merge, B is folded
\* horizontally into the entry that holds A; that entry starts on A's row, its
\* columns span A and B, its width is the sum of the widths folded horizontally
\* into it, and it covers all cells of A and B when A is its first shape. When
\* A came in by a vertical merge, B starts an entry of its own.
C4_MergeCorrectnessAmended ==
    pc = "merge_done" =>
        \A ij \in EdgePairs :
            LET A == shapes[ij[1]]
                B == shapes[ij[2]]
                e == optimized[EntryOf(A)]
            IN  IF HowOf(A) = "vertical"
                THEN /\ EntryOf(B) # EntryOf(A)
                     /\ optimized[EntryOf(B)].parts[1].shape = B
                ELSE /\ EntryOf(B) = EntryOf(A)
                     /\ HowOf(B) = "horizontal"
                     /\ e.shape.y = A.y
                     /\ e.shape.x <= A.x
                     /\ e.shape.x + e.shape.width >= B.x + B.width
                     /\ e.shape.width = MergedWidth(e, Len(e.parts))
                     /\ HowOf(A) = "new" =>
                           (CellsOf(A) \cup CellsOf(B)) \subseteq CellsOf(e.shape)

\* three shapes in a row: A was itself folded horizontally, then B
C4_Witness ==
    /\ pc = "merge_done"
    /\ \E ij \in EdgePairs :
          /\ HowOf(shapes[ij[1]]) = "horizontal"
          /\ HowOf(shapes[ij[2]]) = "horizontal"
          /\ EntryOf(shapes[ij[1]]) = EntryOf(shapes[ij[2]])
    /\ \E ij \in EdgePairs : HowOf(shapes[ij[1]]) = "new"

---------------------------------------------------------------------------
(* Properties of shape_to_path (SpecPath). *)

\* C5 (path grammar), as claimed: the path of (x, y, w, h) is "M x y h w v h h -w z",
\* single spaces between all tokens, the closing z included.
C5_PathGrammar ==
    pc = "path_done" =>
        LET sh == shapes[1]
        IN  /\ path = "M " \o ToString(sh.x) \o " " \o ToString(sh.y)
                      \o " h " \o ToString(sh.width) \o " v " \o ToString(sh.height)
                      \o " h -" \o ToString(sh.width) \o " z"
            /\ (sh.x = 0 /\ sh.y = 0 /\ sh.width = 2 /\ sh.height = 1) =>
                  path = "M 0 0 h 2 v 1 h -2 z"

\* C5 amended: the path of (x, y, w, h) is "M x y h w v h h -wz": single spaces
\* between the tokens, and the closing z right after -w with no space before it.
C5_PathGrammarAmended ==
    pc = "path_done" =>
        LET sh == shapes[1]
        IN  /\ path = "M " \o ToString(sh.x) \o " " \o ToString(sh.y)
                      \o " h " \o ToString(sh.width) \o " v " \o ToString(sh.height)
                      \o " h -" \o ToString(sh.width) \o "z"
            /\ (sh.x = 0 /\ sh.y = 0 /\ sh.width = 2 /\ sh.height = 1) =>
                  path = "M 0 0 h 2 v 1 h -2z"

\* the shape of the 2x1 all-white image, and one with two-digit numbers
C5_Witness ==
    /\ pc = "path_done"
    /\ \/ shapes[1] = PixelGroup(0, 0, 2, 1, WHITE)
       \/ shapes[1] = PixelGroup(10, 3, 11, 10, WHITE) /\ path = "M 10 3 h 11 v 10 h -11z"

====
